---- MODULE Spec2Model ----
(***************************************************************************)
(* Model of scripts/headless-test.py: the MD3 DSL parser (parse_dsl), the  *)
(* compliance check generator (generate_md3_checks, run_md3_tests), the    *)
(* PNG reader (read_png), the image comparison (compare_images), the case  *)
(* runner (run_test), the golden-image test (run_visual_test) and the      *)
(* driver (main).                                                          *)
(*                                                                         *)
(* Numbers.  A DSL number is a decimal literal; its float value is kept in *)
(* hundredths (40.05 is 4005).  A line is the sequence of its whitespace   *)
(* separated tokens after line.strip(); re.match anchors a pattern at the  *)
(* start of the line only, so a pattern matches a PREFIX of the tokens.    *)
(***************************************************************************)
EXTENDS Integers, Sequences, FiniteSets, TLC

VARIABLES
    corpus,             \* the set of lines the document is written with
    text,               \* the lines of the document read so far
    components,         \* spec.components: insertion-ordered dict, as a sequence of Component
    grid_unit,          \* spec.grid_unit, in hundredths
    current_component,  \* name of the Component object current_component refers to, or NoComponent
    current_block,      \* None or "skip"
    pc,                 \* position of the md3 pipeline
    checks,             \* result of generate_md3_checks: the emitted check lines, in order
    consts,             \* value of each iui-spec.h constant in the compiled library
    stdout,             \* out.stdout of the check program, as its lines
    md3_result,         \* result of run_md3_tests: [passed, error, ok, fail]
    png_pc,             \* position of read_png
    png_sig,            \* the 8 leading bytes of the file
    png_chunks,         \* the chunks read so far by the scan loop
    width, height,      \* read_png's width and height
    compressed,         \* read_png's concatenated IDAT payloads
    raster,             \* the returned (width, height, pixels), or NoRaster
    encoded,            \* the raster a PNG file was written from, or NoEncoded
    img1, img2,         \* compare_images' two rasters
    tolerance,          \* compare_images' tolerance
    cmp_result,         \* the returned (match, similarity, diff_count), or NoCompare
    mode,               \* the CLI mode main runs in
    arg_test,           \* args.test: the index of a test of TESTS, or 0 for an unknown name
    main_pc,            \* position of main
    rt_case,            \* index in TESTS of the case run_test is running
    rt_pc,              \* position of run_test on that case
    rt_steps,           \* what run_test did on that case so far, in order
    rt_out,             \* out of subprocess.run(args, ...): returncode and stdout
    rt_result,          \* the (passed, info) run_test returned, or NoCaseResult
    results,            \* main's results list: one (passed, error) per check
    exit_code,          \* main's return value, or None
    vis_pc,             \* position of run_visual_test
    run_no,             \* the number of the harness run under way
    generate,           \* run_visual_test's generate argument
    screenshot,         \* BUILD_DIR/<name>.png: the run that wrote it, 0 when absent
    golden,             \* GOLDEN_DIR/<name>.png: the run whose screenshot it is, 0 when absent
    vis_test,           \* the (passed, info) of this run's run_test
    current,            \* the run whose screenshot read_png(screenshot_path) returned, 0 before
    vis_result          \* the (passed, info) run_visual_test returned

md3vars == <<corpus, text, components, grid_unit, current_component, current_block,
             pc, checks, consts, stdout, md3_result>>
pngvars == <<png_pc, png_sig, png_chunks, width, height, compressed, raster>>
cmpvars == <<img1, img2, tolerance, cmp_result>>
runvars == <<mode, arg_test, main_pc, rt_case, rt_pc, rt_steps, rt_out, rt_result,
             results, exit_code>>
visvars == <<vis_pc, run_no, generate, screenshot, golden, vis_test, current, vis_result>>
restvars == <<encoded, cmpvars, runvars, visvars>>
vars == <<md3vars, pngvars, restvars>>

-----------------------------------------------------------------------------
(* Bounds *)

MaxLines == 5
\* components of a document handed directly to generate_md3_checks
MaxComps == 2
\* chunks of a PNG file
MaxChunks == 4
\* width and height of a raster written to a file
MaxDim == 2
\* pixels of a raster handed to compare_images
MaxPixels == 2
\* largest tolerance handed to compare_images
MaxTol == 2
\* the cases of TESTS a run goes through: its first MaxCases entries
MaxCases == 2
\* harness runs of one case, one after the other
MaxRuns == 3

-----------------------------------------------------------------------------
(* Tokens and lines *)

\* Optional[...] = None for the float fields: no DSL number is negative
None == -1
\* Optional[str] = None for corner_radius_token; \w+ never matches this text
NoToken == "<None>"
\* current_component = None
NoComponent == "<None>"
\* current_block = None
NoBlock == "<None>"

\* a run of word characters (\w+) that is not a number: keyword or identifier
W(s) == [k |-> "w", s |-> s, pad |-> 0, ip |-> <<>>, fp |-> <<>>]
\* "{" or "}"
Sym(s) == [k |-> "sym", s |-> s, pad |-> 0, ip |-> <<>>, fp |-> <<>>]
\* a token that starts with "#"
Hash == [k |-> "hash", s |-> "#", pad |-> 0, ip |-> <<>>, fp |-> <<>>]
\* a decimal literal \d+(\.\d+)?: pad leading zeros, then the digits ip, then "." fp when fp is not empty
Num(pad, ip, fp) == [k |-> "num", s |-> "", pad |-> pad, ip |-> ip, fp |-> fp]
\* the plus-minus sign immediately followed by pad zeros and the digits ip (both may be empty: a bare sign)
Pm(pad, ip) == [k |-> "pm", s |-> "+-", pad |-> pad, ip |-> ip, fp |-> <<>>]
\* "@shape.<s>"
Ref(s) == [k |-> "ref", s |-> s, pad |-> 0, ip |-> <<>>, fp |-> <<>>]

IsBrace(line) == line = <<Sym("}")>>

-----------------------------------------------------------------------------
(* Component, Spec *)

Component(name) ==
    [name |-> name, height_min |-> None, height_exact |-> None, height_tolerance |-> 0,
     size_exact |-> None, size_tolerance |-> 0, touch_target |-> None,
     corner_radius |-> None, corner_radius_token |-> NoToken,
     track_height |-> None, track_width |-> None, thumb_size |-> None,
     icon_size |-> None, padding_h |-> None]

\* Spec().grid_unit = 4.0
DefaultGridUnit == 400

\* names of the dict's keys, and the position of a key (0 when absent)
Names(comps) == {comps[i].name : i \in 1..Len(comps)}
IndexOf(comps, name) ==
    IF name \in Names(comps) THEN CHOOSE i \in 1..Len(comps) : comps[i].name = name ELSE 0
\* spec.components[name]
Get(comps, name) == comps[IndexOf(comps, name)]
\* mutant of Put: an existing key keeps its old value
Put_KeepFirst(comps, comp) ==
    IF comp.name \in Names(comps) THEN comps ELSE Append(comps, comp)
\* spec.components[name] = comp: a new key is appended, an existing key keeps its position
Put(comps, comp) ==
    IF comp.name \in Names(comps)
    THEN [comps EXCEPT ![IndexOf(comps, comp.name)] = comp]
    ELSE Append(comps, comp)

-----------------------------------------------------------------------------
(* Conversions *)

RECURSIVE DigitsValue(_)
DigitsValue(ds) ==
    IF ds = <<>> THEN 0 ELSE 10 * DigitsValue(SubSeq(ds, 1, Len(ds) - 1)) + ds[Len(ds)]

\* float(m.group(1)), in hundredths; the literals of the model have at most two decimals
FloatOf(tok) ==
    100 * DigitsValue(tok.ip)
    + (IF Len(tok.fp) = 0 THEN 0
       ELSE IF Len(tok.fp) = 1 THEN 10 * tok.fp[1]
       ELSE 10 * tok.fp[1] + tok.fp[2])

\* int(str) raises ValueError for a string of more than sys.int_info.default_max_str_digits digits
IntMaxStrDigits == 4300
IntRaises(tok) == tok.pad + Len(tok.ip) > IntMaxStrDigits
IntOf(tok) == DigitsValue(tok.ip)

-----------------------------------------------------------------------------
(* COMPONENT_PROPS and the line patterns *)

Prop(head, val, attr, tol) == [head |-> head, val |-> val, attr |-> attr, tol |-> tol]

COMPONENT_PROPS == <<
    Prop(<<"height", "MIN">>,   "num", "height_min",          FALSE),
    Prop(<<"height", "EXACT">>, "num", "height_exact",        TRUE),
    Prop(<<"size", "EXACT">>,   "num", "size_exact",          TRUE),
    Prop(<<"touch_target">>,    "num", "touch_target",        FALSE),
    Prop(<<"corner_radius">>,   "ref", "corner_radius_token", FALSE),
    Prop(<<"corner_radius">>,   "num", "corner_radius",       FALSE),
    Prop(<<"track_height">>,    "num", "track_height",        FALSE),
    Prop(<<"track_width">>,     "num", "track_width",         FALSE),
    Prop(<<"thumb_size">>,      "num", "thumb_size",          FALSE),
    Prop(<<"icon_size">>,       "num", "icon_size",           FALSE),
    Prop(<<"padding_h">>,       "num", "padding_h",           FALSE) >>

\* re.match(pattern, line): the head words, then the value token
Matches(p, line) ==
    /\ Len(line) >= Len(p.head) + 1
    /\ \A i \in 1..Len(p.head) : line[i] = W(p.head[i])
    /\ line[Len(p.head) + 1].k = p.val
Group1(p, line) == line[Len(p.head) + 1]
\* the optional group (?:+-(\d+))? took part in the match: m.lastindex = 2
HasGroup2(p, line) ==
    /\ p.tol
    /\ Len(line) >= Len(p.head) + 2
    /\ line[Len(p.head) + 2].k = "pm"
    /\ line[Len(p.head) + 2].pad + Len(line[Len(p.head) + 2].ip) > 0
Group2(p, line) == line[Len(p.head) + 2]

\* index of the first pattern of COMPONENT_PROPS that matches, 0 when none does
FirstMatch(line) ==
    IF \E i \in 1..Len(COMPONENT_PROPS) : Matches(COMPONENT_PROPS[i], line)
    THEN CHOOSE i \in 1..Len(COMPONENT_PROPS) :
            /\ Matches(COMPONENT_PROPS[i], line)
            /\ \A j \in 1..(i - 1) : ~Matches(COMPONENT_PROPS[j], line)
    ELSE 0

\* r"COMPONENT\s+(\w+)\s*\{"
MatchComponent(line) ==
    Len(line) >= 3 /\ line[1] = W("COMPONENT") /\ line[2].k = "w" /\ line[3] = Sym("{")
\* r"GLOBAL\s+grid_unit\s+(\d+(?:\.\d+)?)"
MatchGridUnit(line) ==
    Len(line) >= 3 /\ line[1] = W("GLOBAL") /\ line[2] = W("grid_unit") /\ line[3].k = "num"
\* r"GLOBAL\s+(state_layer|shape|typography)\s*\{"
MatchSkipBlock(line) ==
    /\ Len(line) >= 3 /\ line[1] = W("GLOBAL")
    /\ line[2] \in {W("state_layer"), W("shape"), W("typography")}
    /\ line[3] = Sym("{")

\* the property branch: setattr of the first matching pattern, then the paired tolerance
SetProp(comp, line) ==
    LET i == FirstMatch(line)
        p == COMPONENT_PROPS[i]
        v == IF p.val = "ref" THEN Group1(p, line).s ELSE FloatOf(Group1(p, line))
        c1 == [comp EXCEPT ![p.attr] = v]
    IN  IF i = 0 THEN comp
        ELSE IF p.attr \in {"height_exact", "size_exact"} /\ HasGroup2(p, line)
        THEN [c1 EXCEPT ![IF p.attr = "height_exact" THEN "height_tolerance"
                          ELSE "size_tolerance"] = IntOf(Group2(p, line))]
        ELSE c1
\* int(m.group(2) or 0) raises
SetPropRaises(line) ==
    LET i == FirstMatch(line)
        p == COMPONENT_PROPS[i]
    IN  /\ i # 0
        /\ p.attr \in {"height_exact", "size_exact"}
        /\ HasGroup2(p, line)
        /\ IntRaises(Group2(p, line))
-----------------------------------------------------------------------------
(* parse_dsl: one loop iteration per line *)

\* mutant of ParseStep: a closing brace in skip mode also closes the component
ParseStep_BraceClosesBoth(comps, gu, cur, blk, line) ==
    LET same == [components |-> comps, grid_unit |-> gu, current_component |-> cur,
                 current_block |-> blk, raised |-> FALSE]
    IN  IF line = <<>> \/ line[1].k = "hash" THEN same
        ELSE IF MatchComponent(line)
        THEN [same EXCEPT !.components = Put(comps, Component(line[2].s)),
                          !.current_component = line[2].s]
        ELSE IF MatchGridUnit(line) THEN [same EXCEPT !.grid_unit = FloatOf(line[3])]
        ELSE IF MatchSkipBlock(line) THEN [same EXCEPT !.current_block = "skip"]
        ELSE IF IsBrace(line)
        THEN [same EXCEPT !.current_block = NoBlock, !.current_component = NoComponent]
        ELSE IF blk = "skip" THEN same
        ELSE IF cur # NoComponent
        THEN IF SetPropRaises(line) THEN [same EXCEPT !.raised = TRUE]
             ELSE [same EXCEPT !.components = Put(comps, SetProp(Get(comps, cur), line))]
        ELSE same

\* mutant of ParseStep: the skip test comes after the property patterns
ParseStep_SkipLeaks(comps, gu, cur, blk, line) ==
    LET same == [components |-> comps, grid_unit |-> gu, current_component |-> cur,
                 current_block |-> blk, raised |-> FALSE]
    IN  IF line = <<>> \/ line[1].k = "hash" THEN same
        ELSE IF MatchComponent(line)
        THEN [same EXCEPT !.components = Put(comps, Component(line[2].s)),
                          !.current_component = line[2].s]
        ELSE IF MatchGridUnit(line) THEN [same EXCEPT !.grid_unit = FloatOf(line[3])]
        ELSE IF MatchSkipBlock(line) THEN [same EXCEPT !.current_block = "skip"]
        ELSE IF IsBrace(line)
        THEN IF blk # NoBlock THEN [same EXCEPT !.current_block = NoBlock]
             ELSE [same EXCEPT !.current_component = NoComponent]
        ELSE IF cur # NoComponent
        THEN IF SetPropRaises(line) THEN [same EXCEPT !.raised = TRUE]
             ELSE [same EXCEPT !.components = Put(comps, SetProp(Get(comps, cur), line))]
        ELSE same

\* state of the parser after the loop body ran on one stripped line
ParseStep(comps, gu, cur, blk, line) ==
    LET same == [components |-> comps, grid_unit |-> gu, current_component |-> cur,
                 current_block |-> blk, raised |-> FALSE]
    IN  IF line = <<>> \/ line[1].k = "hash" THEN same
        ELSE IF MatchComponent(line)
        THEN [same EXCEPT !.components = Put(comps, Component(line[2].s)),
                          !.current_component = line[2].s]
        ELSE IF MatchGridUnit(line) THEN [same EXCEPT !.grid_unit = FloatOf(line[3])]
        ELSE IF MatchSkipBlock(line) THEN [same EXCEPT !.current_block = "skip"]
        ELSE IF IsBrace(line)
        THEN IF blk # NoBlock THEN [same EXCEPT !.current_block = NoBlock]
             ELSE [same EXCEPT !.current_component = NoComponent]
        ELSE IF blk = "skip" THEN same
        ELSE IF cur # NoComponent
        THEN IF SetPropRaises(line) THEN [same EXCEPT !.raised = TRUE]
             ELSE [same EXCEPT !.components = Put(comps, SetProp(Get(comps, cur), line))]
        ELSE same

\* the not-yet-produced results
NoResult == [passed |-> FALSE, error |-> "<pending>", ok |-> 0, fail |-> 0]

\* for line in content.split("\n"): the next line of the document is read and handled
ParseLine ==
    /\ pc = "parsing"
    /\ Len(text) < MaxLines
    /\ \E line \in corpus :
          LET st == ParseStep(components, grid_unit, current_component, current_block, line)
          IN  /\ text' = Append(text, line)
              /\ IF st.raised
                 THEN /\ pc' = "raised"
                      /\ UNCHANGED <<components, grid_unit, current_component, current_block>>
                 ELSE /\ pc' = "parsing"
                      /\ components' = st.components
                      /\ grid_unit' = st.grid_unit
                      /\ current_component' = st.current_component
                      /\ current_block' = st.current_block
    /\ UNCHANGED <<corpus, checks, consts, stdout, md3_result>>
    /\ UNCHANGED <<pngvars, restvars>>

\* the loop ends at the end of the text: return spec
ParseReturn ==
    /\ pc = "parsing"
    /\ pc' = "parsed"
    /\ UNCHANGED <<corpus, text, components, grid_unit, current_component, current_block,
                   checks, consts, stdout, md3_result>>
    /\ UNCHANGED <<pngvars, restvars>>
-----------------------------------------------------------------------------
(* SPEC_CONST_MAP and generate_md3_checks *)

Entry(attr, const, expected) == [attr |-> attr, const |-> const, expected |-> expected]

SPEC_CONST_MAP == <<
    [name |-> "button",     map |-> << Entry("height_min", "IUI_BUTTON_HEIGHT", 40) >>],
    [name |-> "textfield",  map |-> << Entry("height_min", "IUI_TEXTFIELD_HEIGHT", 56) >>],
    [name |-> "switch",     map |-> << Entry("track_width", "IUI_SWITCH_TRACK_WIDTH", 52),
                                       Entry("track_height", "IUI_SWITCH_TRACK_HEIGHT", 32) >>],
    [name |-> "chip",       map |-> << Entry("height_min", "IUI_CHIP_HEIGHT", 32) >>],
    [name |-> "fab",        map |-> << Entry("size_exact", "IUI_FAB_SIZE", 56) >>],
    [name |-> "segmented",  map |-> << Entry("height_exact", "IUI_SEGMENTED_HEIGHT", 40),
                                       Entry("icon_size", "IUI_SEGMENTED_ICON_SIZE", 18) >>],
    [name |-> "slider",     map |-> << Entry("track_height", "IUI_SLIDER_TRACK_HEIGHT", 4) >>],
    [name |-> "tab",        map |-> << Entry("height_min", "IUI_TAB_HEIGHT", 48) >>],
    [name |-> "search_bar", map |-> << Entry("height_min", "IUI_SEARCH_BAR_HEIGHT", 56),
                                       Entry("corner_radius", "IUI_SEARCH_BAR_CORNER_RADIUS", 28) >>],
    [name |-> "dialog",     map |-> << Entry("min_width", "IUI_DIALOG_MIN_WIDTH", 280) >>],
    [name |-> "nav_bar",    map |-> << Entry("height_exact", "IUI_NAV_BAR_HEIGHT", 80) >>],
    [name |-> "nav_rail",   map |-> << Entry("width_exact", "IUI_NAV_RAIL_WIDTH", 80),
                                       Entry("item_height", "IUI_NAV_RAIL_ITEM_HEIGHT", 56) >>],
    [name |-> "nav_drawer", map |-> << Entry("width_exact", "IUI_NAV_DRAWER_WIDTH", 280),
                                       Entry("item_height", "IUI_NAV_DRAWER_ITEM_HEIGHT", 56) >>],
    [name |-> "appbar_small",  map |-> << Entry("height_exact", "IUI_APPBAR_SMALL_HEIGHT", 64) >>],
    [name |-> "appbar_medium", map |-> << Entry("height_exact", "IUI_APPBAR_MEDIUM_HEIGHT", 112) >>],
    [name |-> "appbar_large",  map |-> << Entry("height_exact", "IUI_APPBAR_LARGE_HEIGHT", 152) >>],
    [name |-> "list_item_one_line",   map |-> << Entry("height_exact", "IUI_LIST_ONE_LINE_HEIGHT", 56) >>],
    [name |-> "list_item_two_line",   map |-> << Entry("height_exact", "IUI_LIST_TWO_LINE_HEIGHT", 72) >>],
    [name |-> "list_item_three_line", map |-> << Entry("height_exact", "IUI_LIST_THREE_LINE_HEIGHT", 88) >> ] >>

\* SPEC_CONST_MAP.get(name, {})
Mapping(name) ==
    IF \E i \in 1..Len(SPEC_CONST_MAP) : SPEC_CONST_MAP[i].name = name
    THEN SPEC_CONST_MAP[CHOOSE i \in 1..Len(SPEC_CONST_MAP) : SPEC_CONST_MAP[i].name = name].map
    ELSE <<>>

\* getattr(comp, attr, None)
GetAttr(comp, attr) == IF attr \in DOMAIN comp THEN comp[attr] ELSE None

Abs(n) == IF n < 0 THEN -n ELSE n

\* The declared values (in hundredths) paired with the expected value whose decimal distance
\* is exactly 0.1 and whose binary64 difference float(val) - expected lies below
\* binary64 0.1: 4.1 - 4 is 0.09999999999999964, while 40.1 - 40 is 0.10000000000000142.
FloatDiffBelowTenth ==
    { <<410, 4>>, <<6410, 64>>, <<7210, 72>>, <<7190, 72>>, <<8010, 80>>, <<7990, 80>>,
      <<8810, 88>>, <<8790, 88>>, <<11210, 112>>, <<11190, 112>>, <<15210, 152>>, <<15190, 152>> }

\* abs(val - expected) < 0.1, evaluated in binary64 as Python does
NearExpected(val, expected) ==
    \/ Abs(val - 100 * expected) < 10
    \/ Abs(val - 100 * expected) = 10 /\ <<val, expected>> \in FloatDiffBelowTenth

\* the C line check("<name>_<attr>", (int)<const> == <int(expected)> ? 0 : 1);
CheckLine(name, e) == [name |-> name \o "_" \o e.attr, const |-> e.const, expected |-> e.expected]

\* the inner loop over mapping.items() for one component
RECURSIVE ComponentChecks(_, _)
ComponentChecks(comp, mapping) ==
    IF mapping = <<>> THEN <<>>
    ELSE LET e == Head(mapping)
             val == GetAttr(comp, e.attr)
         IN  (IF val # None /\ NearExpected(val, e.expected)
              THEN <<CheckLine(comp.name, e)>> ELSE <<>>)
             \o ComponentChecks(comp, Tail(mapping))

\* generate_md3_checks: the outer loop over spec.components.items(), in dict order
RECURSIVE GenerateMd3Checks(_)
GenerateMd3Checks(comps) ==
    IF comps = <<>> THEN <<>>
    ELSE ComponentChecks(Head(comps), Mapping(Head(comps).name))
         \o GenerateMd3Checks(Tail(comps))
-----------------------------------------------------------------------------
(* run_md3_tests and the program built from MD3_TEST_TEMPLATE *)

Result(passed, error, ok, fail) == [passed |-> passed, error |-> error, ok |-> ok, fail |-> fail]

\* constants referred to by the emitted checks
ConstNames(cs) == {cs[i].const : i \in 1..Len(cs)}

\* the compiled library: each constant has the value a check expects, or that value plus 4
LibraryConsts(cs) ==
    { cv \in [ConstNames(cs) -> UNION {{cs[i].expected, cs[i].expected + 4} : i \in 1..Len(cs)}] :
        \A i \in 1..Len(cs) : cv[cs[i].const] \in {cs[i].expected, cs[i].expected + 4} }

\* mutant of CheckArg: the two arms of the conditional swapped
CheckArg_Swapped(c, cv) == IF cv[c.const] = c.expected THEN 1 ELSE 0
\* check(name, (int)CONST == expected ? 0 : 1): the value handed to check()
CheckArg(c, cv) == IF cv[c.const] = c.expected THEN 0 ELSE 1

\* stdout of the program when main runs to its end: one OK/FAIL line per check, then violations:<n>
RECURSIVE CheckOutput(_, _)
CheckOutput(cs, cv) ==
    IF cs = <<>> THEN <<>>
    ELSE << [tag |-> IF CheckArg(Head(cs), cv) # 0 THEN "FAIL" ELSE "OK", val |-> Head(cs).name] >>
         \o CheckOutput(Tail(cs), cv)
Violations(cs, cv) == Cardinality({i \in 1..Len(cs) : CheckArg(cs[i], cv) # 0})
ProgramOutput(cs, cv, how) ==
    IF how = "complete"
    THEN CheckOutput(cs, cv) \o << [tag |-> "violations", val |-> Violations(cs, cv)] >>
    ELSE <<>>   \* port or context init failed: return 1 before anything is printed

\* the loop over out.stdout.split("\n"): (ok_count, fail_count) after the lines
RECURSIVE CountLines(_, _, _)
CountLines(lines, ok, fail) ==
    IF lines = <<>> THEN <<ok, fail>>
    ELSE LET l == Head(lines)
         IN  IF l.tag = "OK" THEN CountLines(Tail(lines), ok + 1, fail)
             ELSE IF l.tag = "FAIL" THEN CountLines(Tail(lines), ok, fail + 1)
             ELSE IF l.tag = "violations" THEN CountLines(Tail(lines), ok, l.val)
             ELSE CountLines(Tail(lines), ok, fail)

\* dsl_path does not exist
DslNotFound ==
    /\ pc = "start"
    /\ pc' = "done"
    /\ md3_result' = Result(FALSE, "md3-spec.dsl not found", 0, 0)
    /\ UNCHANGED <<corpus, text, components, grid_unit, current_component, current_block,
                   checks, consts, stdout>>
    /\ UNCHANGED <<pngvars, restvars>>

\* dsl_path.read_text() handed to parse_dsl
ReadDsl ==
    /\ pc = "start"
    /\ pc' = "parsing"
    /\ UNCHANGED <<corpus, text, components, grid_unit, current_component, current_block,
                   checks, consts, stdout, md3_result>>
    /\ UNCHANGED <<pngvars, restvars>>

\* checks = generate_md3_checks(spec)
Generate ==
    /\ pc = "parsed"
    /\ checks' = GenerateMd3Checks(components)
    /\ pc' = "generated"
    /\ UNCHANGED <<corpus, text, components, grid_unit, current_component, current_block,
                   consts, stdout, md3_result>>
    /\ UNCHANGED <<pngvars, restvars>>

\* the result returned for an empty checks string
NoChecksResult == Result(FALSE, "No MD3 checks generated", 0, 0)

\* if not checks: return False, {"error": "No MD3 checks generated"}
Md3NoChecks ==
    /\ pc = "generated"
    /\ checks = <<>>
    /\ pc' = "done"
    /\ md3_result' = NoChecksResult
    /\ UNCHANGED <<corpus, text, components, grid_unit, current_component, current_block,
                   checks, consts, stdout>>
    /\ UNCHANGED <<pngvars, restvars>>

\* the library is missing, cc fails, or the program exceeds the 10 s timeout
Md3BuildOrRunFails ==
    /\ pc = "generated"
    /\ checks # <<>>
    /\ \E err \in {"Library not found", "compile", "timeout"} :
          md3_result' = Result(FALSE, err, 0, 0)
    /\ pc' = "done"
    /\ UNCHANGED <<corpus, text, components, grid_unit, current_component, current_block,
                   checks, consts, stdout>>
    /\ UNCHANGED <<pngvars, restvars>>

\* the program ran within the timeout against a library whose constants are cv
Md3Ran ==
    /\ pc = "generated"
    /\ checks # <<>>
    /\ \E cv \in LibraryConsts(checks) :
       \E how \in {"complete", "init_failed"} :
          LET out == ProgramOutput(checks, cv, how)
              n == CountLines(out, 0, 0)
          IN  /\ consts' = cv
              /\ stdout' = out
              /\ md3_result' = Result(n[2] = 0, "", n[1], n[2])
    /\ pc' = "done"
    /\ UNCHANGED <<corpus, text, components, grid_unit, current_component, current_block,
                   checks>>
    /\ UNCHANGED <<pngvars, restvars>>

-----------------------------------------------------------------------------
(* Documents *)

Int4301 == Pm(IntMaxStrDigits, <<2>>)   \* the sign, 4300 zeros, then 2: 4301 digits

CorpusBlocks == {
    << W("COMPONENT"), W("button"), Sym("{") >>,
    << W("COMPONENT"), W("x"), Sym("{") >>,
    << W("COMPONENT"), W("button"), Sym("{"), W("height"), W("MIN"), Num(0, <<4, 0>>, <<>>), Sym("}") >>,
    << Sym("}") >>,
    << W("height"), W("MIN"), Num(0, <<4, 0>>, <<>>) >>,
    << W("height"), W("MIN"), Num(0, <<1, 0>>, <<>>) >>,
    << W("height"), W("MIN"), Num(0, <<2, 0>>, <<>>) >> }

CorpusSkip == {
    << W("COMPONENT"), W("x"), Sym("{") >>,
    << W("GLOBAL"), W("shape"), Sym("{") >>,
    << W("GLOBAL"), W("grid_unit"), Num(0, <<8>>, <<>>) >>,
    << Sym("}") >>,
    << W("corner_radius"), Num(0, <<9, 9, 9>>, <<>>) >>,
    << W("corner_radius"), Num(0, <<1, 2>>, <<>>) >>,
    << W("corner_radius"), Ref("large") >> }

CorpusTolerance == {
    << W("COMPONENT"), W("x"), Sym("{") >>,
    << W("GLOBAL"), W("typography"), Sym("{") >>,
    << Sym("}") >>,
    << W("height"), W("EXACT"), Num(0, <<5, 6>>, <<>>), Pm(0, <<2>>) >>,
    << W("height"), W("EXACT"), Num(0, <<5, 6>>, <<>>) >>,
    << W("size"), W("EXACT"), Num(0, <<4, 8>>, <<>>), Pm(0, <<1>>) >>,
    << W("size"), W("EXACT"), Num(0, <<4, 8>>, <<>>), Pm(0, <<>>), Num(0, <<1>>, <<>>) >> }

\* garbled text: blank and comment lines, an unknown property, a one-line GLOBAL block, a
\* property outside any block, a tolerance of 4301 digits
CorpusGarbled == {
    << >>,
    << Hash, W("height"), W("EXACT"), Num(0, <<5, 6>>, <<>>), Pm(0, <<9>>) >>,
    << W("height_min"), Num(0, <<1, 0>>, <<>>) >>,
    << W("GLOBAL"), W("shape"), Sym("{"), W("corner_radius"), Num(0, <<9, 9, 9>>, <<>>), Sym("}") >>,
    << W("COMPONENT"), W("x"), Sym("{") >>,
    << Sym("}") >>,
    << W("height"), W("EXACT"), Num(0, <<5, 6>>, <<>>), Int4301 >> }

Corpora == {CorpusBlocks, CorpusSkip, CorpusTolerance, CorpusGarbled}

\* read_png is not running
NoRaster == [width |-> 0, height |-> 0, pixels |-> <<>>, none |-> TRUE]
PngIdle ==
    /\ png_pc = "idle"
    /\ png_sig = <<>>
    /\ png_chunks = <<>>
    /\ width = 0
    /\ height = 0
    /\ compressed = <<>>
    /\ raster = NoRaster

\* run_md3_tests is not running
Md3Idle ==
    /\ corpus = {}
    /\ text = <<>>
    /\ components = <<>>
    /\ grid_unit = DefaultGridUnit
    /\ current_component = NoComponent
    /\ current_block = NoBlock
    /\ pc = "start"
    /\ checks = <<>>
    /\ consts = <<>>
    /\ stdout = <<>>
    /\ md3_result = NoResult

\* no file was encoded
NoEncoded == [width |-> 0, height |-> 0, colour |-> <<>>, filters |-> <<>>, none |-> TRUE]
\* compare_images is not running
NoCompare == [match |-> FALSE, similarity |-> <<0, 1>>, diff_count |-> 0, none |-> TRUE]
CmpIdle ==
    /\ img1 = NoRaster
    /\ img2 = NoRaster
    /\ tolerance = 0
    /\ cmp_result = NoCompare

\* out before the conformance program ran, info before run_test returned
NoOut == [kind |-> "<none>", returncode |-> 0, stdout |-> <<>>]
NoInfo == [frames |-> 0, box |-> 0, passed |-> 0]
NoCaseResult == [passed |-> FALSE, error |-> "<pending>", info |-> NoInfo]
\* main is not running
RunIdle ==
    /\ mode = "<none>"
    /\ arg_test = 0
    /\ main_pc = "idle"
    /\ rt_case = 0
    /\ rt_pc = "idle"
    /\ rt_steps = <<>>
    /\ rt_out = NoOut
    /\ rt_result = NoCaseResult
    /\ results = <<>>
    /\ exit_code = None

\* run_visual_test is not running
VisIdle ==
    /\ vis_pc = "idle"
    /\ run_no = 0
    /\ generate = FALSE
    /\ screenshot = 0
    /\ golden = 0
    /\ vis_test = NoCaseResult
    /\ current = 0
    /\ vis_result = NoCaseResult

RestIdle ==
    /\ encoded = NoEncoded
    /\ CmpIdle
    /\ RunIdle
    /\ VisIdle

-----------------------------------------------------------------------------
(* Specification of the md3 pipeline: run_md3_tests from the DSL text on *)

Init ==
    /\ corpus \in Corpora
    /\ text = <<>>
    /\ components = <<>>
    /\ grid_unit = DefaultGridUnit
    /\ current_component = NoComponent
    /\ current_block = NoBlock
    /\ pc = "start"
    /\ checks = <<>>
    /\ consts = <<>>
    /\ stdout = <<>>
    /\ md3_result = NoResult
    /\ PngIdle
    /\ RestIdle

Next ==
    \/ DslNotFound
    \/ ReadDsl
    \/ ParseLine
    \/ ParseReturn
    \/ Generate
    \/ Md3NoChecks
    \/ Md3BuildOrRunFails
    \/ Md3Ran

Spec == Init /\ [][Next]_vars
-----------------------------------------------------------------------------
(* Properties of parse_dsl *)

\* the step reads one more line of the document, and that line
ReadsLine == pc = "parsing" /\ Len(text') = Len(text) + 1
NewLine == text'[Len(text')]

LComponent(n) == << W("COMPONENT"), W(n), Sym("{") >>
LBrace == << Sym("}") >>
LHeightMin(ip) == << W("height"), W("MIN"), Num(0, ip, <<>>) >>
LCornerRadius(ip) == << W("corner_radius"), Num(0, ip, <<>>) >>
LSkipShape == << W("GLOBAL"), W("shape"), Sym("{") >>
\* COMPONENT button { height MIN 40 } on one line
InlineButton ==
    << W("COMPONENT"), W("button"), Sym("{"), W("height"), W("MIN"), Num(0, <<4, 0>>, <<>>), Sym("}") >>
\* the same block, one statement per line
ButtonBlock == << LComponent("button"), LHeightMin(<<4, 0>>), LBrace >>

\* C1: parse_dsl is total: whatever lines the text has, it returns a Spec and never raises.
C1_ParseNeverRaises == pc # "raised"

\* the OK/FAIL line of the only check follows the compiled constant: OK for 40, FAIL for 44
ButtonCheckFollowsConstant ==
    (pc = "done" /\ stdout # <<>>) =>
        /\ consts["IUI_BUTTON_HEIGHT"] = 40 => stdout[1] = [tag |-> "OK", val |-> "button_height_min"]
        /\ consts["IUI_BUTTON_HEIGHT"] = 44 => stdout[1] = [tag |-> "FAIL", val |-> "button_height_min"]
OneButtonCheck == Len(checks) = 1 /\ checks[1].name = "button_height_min"

\* C2 (as claimed): the document "COMPONENT button { height MIN 40 }", written on one line as
\* in the spec, makes the generator emit exactly one check, button_height_min, which passes
\* for a compiled constant of 40 and fails for 44.
C2_InlineBlockEmitsOneCheck ==
    (text = <<InlineButton>> /\ pc \in {"generated", "done"}) =>
        OneButtonCheck /\ ButtonCheckFollowsConstant

\* C2 (amended): the block written one statement per line (COMPONENT button {, height MIN 40,
\* }) makes the generator emit exactly one check, button_height_min, which passes for a
\* compiled constant of 40 and fails for 44.
C2_BlockEmitsOneCheck ==
    (text = ButtonBlock /\ pc \in {"generated", "done"}) =>
        OneButtonCheck /\ ButtonCheckFollowsConstant

C2_Witness ==
    /\ text = ButtonBlock /\ pc = "done" /\ stdout # <<>>
    /\ consts["IUI_BUTTON_HEIGHT"] = 44
    /\ stdout[1].tag = "FAIL"

Redeclared ==
    << LComponent("x"), LHeightMin(<<1, 0>>), LBrace, LComponent("x"), LHeightMin(<<2, 0>>) >>

\* C3: last write wins.  A COMPONENT line for a name leaves exactly one entry of that name,
\* equal to a fresh Component (nothing of an earlier declaration is carried over); declaring x
\* with height_min 10 and again with height_min 20 yields the single component x with 20.
C3_LastWriteWins ==
    /\ [](text = Redeclared =>
            components = << [Component("x") EXCEPT !.height_min = 2000] >>)
    /\ [][(ReadsLine /\ pc' = "parsing" /\ MatchComponent(NewLine)) =>
            /\ Cardinality({i \in 1..Len(components') : components'[i].name = NewLine[2].s}) = 1
            /\ Get(components', NewLine[2].s) = Component(NewLine[2].s)]_vars

C3_Witness ==
    /\ text = Redeclared /\ pc = "parsed"
    /\ Len(components) = 1 /\ components[1].height_min = 2000

SkipThenComponent ==
    << LSkipShape, LCornerRadius(<<9, 9, 9>>), LBrace, LComponent("x"), LCornerRadius(<<1, 2>>) >>

\* C4: skip-block isolation.  (a) GLOBAL shape { corner_radius 999 } followed by
\* COMPONENT x { corner_radius 12 } leaves x.corner_radius = 12; (b) a property line read in
\* skip mode changes no component; (c) a property line read outside skip mode, in an open
\* component, sets its field: a closed skip block suppresses nothing.
C4_SkipBlockIsolation ==
    /\ [](text = SkipThenComponent =>
            (Names(components) = {"x"} /\ Get(components, "x").corner_radius = 1200))
    /\ [][(ReadsLine /\ current_block = "skip" /\ FirstMatch(NewLine) # 0) =>
            components' = components]_vars
    /\ [][(ReadsLine /\ pc' = "parsing" /\ current_block = NoBlock
              /\ current_component # NoComponent /\ FirstMatch(NewLine) # 0) =>
            LET p == COMPONENT_PROPS[FirstMatch(NewLine)]
                tok == NewLine[Len(p.head) + 1]
            IN  Get(components', current_component)[p.attr]
                    = (IF p.val = "ref" THEN tok.s ELSE FloatOf(tok))]_vars

C4_Witness ==
    /\ text = SkipThenComponent /\ pc = "parsed"
    /\ Get(components, "x").corner_radius = 1200

\* the last line read is a "<what> EXACT <number>" line handled by the property branch
LastIsExact(what) ==
    /\ pc = "parsing" /\ text # <<>>
    /\ current_block = NoBlock /\ current_component # NoComponent
    /\ Len(text[Len(text)]) >= 3
    /\ text[Len(text)][1] = W(what) /\ text[Len(text)][2] = W("EXACT")
    /\ text[Len(text)][3].k = "num"
\* the tolerance written on the last line: the digits after the sign, 0 without them
WrittenTolerance ==
    LET l == text[Len(text)]
    IN  IF Len(l) >= 4 /\ l[4].k = "pm" /\ l[4].ip # <<>> THEN DigitsValue(l[4].ip) ELSE 0

\* C5: tolerance pairing.  After a height EXACT (size EXACT) line the component's
\* height_tolerance (size_tolerance) is the tolerance written on that line, and 0 when the
\* line has none, also when an earlier line of the component had one.
C5_TolerancePairing ==
    /\ LastIsExact("height") =>
          Get(components, current_component).height_tolerance = WrittenTolerance
    /\ LastIsExact("size") =>
          Get(components, current_component).size_tolerance = WrittenTolerance

\* C6: in every component, corner_radius and corner_radius_token are never both populated.
C6_CornerRadiusExclusive ==
    \A i \in 1..Len(components) :
        ~(components[i].corner_radius # None /\ components[i].corner_radius_token # NoToken)
-----------------------------------------------------------------------------
(* Specification of the generator alone: generate_md3_checks on parsed documents *)

With(name, attr, vals) == {[Component(name) EXCEPT ![attr] = v] : v \in vals}

\* components as parse_dsl returns them, with values around the expected ones
DocComponents ==
    With("button", "height_min", {None, 3990, 3995, 4000, 4005, 4010, 4100})
    \cup With("button", "corner_radius", {1200})
    \cup With("slider", "track_height", {None, 390, 400, 410})
    \cup With("nav_bar", "height_exact", {7990, 8100})
    \cup With("dialog", "height_min", {None, 28000})
    \cup With("x", "height_min", {4000})

\* dicts of at most MaxComps components: the names are distinct
Docs ==
    UNION { { d \in [1..n -> DocComponents] :
                \A i, j \in 1..n : i # j => d[i].name # d[j].name } : n \in 0..MaxComps }

GenInit ==
    /\ corpus = {}
    /\ text = <<>>
    /\ components \in Docs
    /\ grid_unit = DefaultGridUnit
    /\ current_component = NoComponent
    /\ current_block = NoBlock
    /\ pc = "parsed"
    /\ checks = <<>>
    /\ consts = <<>>
    /\ stdout = <<>>
    /\ md3_result = NoResult
    /\ PngIdle
    /\ RestIdle

GenNext ==
    \/ Generate
    \/ Md3NoChecks
    \/ Md3BuildOrRunFails
    \/ Md3Ran

GenSpec == GenInit /\ [][GenNext]_vars

-----------------------------------------------------------------------------
(* Properties of generate_md3_checks *)

Emitted(name, attr) == \E k \in 1..Len(checks) : checks[k].name = name \o "_" \o attr
Declared(comp, attr) == attr \in DOMAIN comp /\ comp[attr] # None
TableEntries(name) ==
    UNION { {SPEC_CONST_MAP[i].map[j] : j \in 1..Len(SPEC_CONST_MAP[i].map)} :
            i \in {i \in 1..Len(SPEC_CONST_MAP) : SPEC_CONST_MAP[i].name = name} }
\* the decimal distance of val (hundredths) from expected is below 0.1 (at most 0.1 if incl)
Within(val, expected, incl) ==
    IF incl THEN Abs(val - 100 * expected) <= 10 ELSE Abs(val - 100 * expected) < 10

\* the claimed emission rule, for one reading of "within the threshold"
EmitsExactlyWithin(incl) ==
    /\ \A i \in 1..Len(components) : \A e \in TableEntries(components[i].name) :
          Emitted(components[i].name, e.attr)
              <=> (Declared(components[i], e.attr)
                   /\ Within(components[i][e.attr], e.expected, incl))
    /\ \A k \in 1..Len(checks) :
          \E i \in 1..Len(components) : \E e \in TableEntries(components[i].name) :
              checks[k] = CheckLine(components[i].name, e)

\* C7: a check is emitted for (component, property) exactly when the component is in the
\* document and in the table, the property is declared and listed, and the declared value is
\* within the 0.1 threshold of the expected value (read strictly or inclusively).
C7_EmitsIffWithinThreshold ==
    pc = "generated" => (EmitsExactlyWithin(FALSE) \/ EmitsExactlyWithin(TRUE))

\* a component of the table declares a listed property
DeclaresListed(comps) ==
    \E i \in 1..Len(comps) : \E e \in TableEntries(comps[i].name) : Declared(comps[i], e.attr)

\* C8: a document whose components declared properties but had every check omitted is
\* distinguishable from the empty document: not the same output and the same outcome.
C8_OmittedDistinctFromEmpty ==
    (pc = "done" /\ DeclaresListed(components) /\ checks = <<>>) =>
        ~(checks = GenerateMd3Checks(<<>>) /\ md3_result = NoChecksResult)

-----------------------------------------------------------------------------
(* read_png *)

\* b"\x89PNG\r\n\x1a\n"
PngMagic == <<137, 80, 78, 71, 13, 10, 26, 10>>

\* struct.unpack(">I", b)[0] of four bytes
U32(b) == ((b[1] * 256 + b[2]) * 256 + b[3]) * 256 + b[4]

RECURSIVE SumBytes(_)
SumBytes(b) == IF b = <<>> THEN 0 ELSE Head(b) + SumBytes(Tail(b))

\* zlib, as a stream of one stored block: the method byte, the block length, the bytes,
\* and the low half of their Adler-32 checksum
ZMethod == 120
Adler(b) == (1 + SumBytes(b)) % 65521
Compress(raw) == <<ZMethod, Len(raw)>> \o raw \o <<Adler(raw)>>
\* zlib.decompress(data): the bytes, or an error for a wrong method byte, a truncated
\* stream or a wrong checksum; bytes after the end of the stream are ignored
DecompressFails(z) ==
    \/ Len(z) < 2
    \/ z[1] # ZMethod
    \/ Len(z) < z[2] + 3
    \/ z[z[2] + 3] # Adler(SubSeq(z, 3, z[2] + 2))
Decompress(z) == SubSeq(z, 3, z[2] + 2)

\* mutant of PixelIndex: the row's first byte is not skipped
PixelIndex_NoSkip(i, w) == ((i - 1) \div w) * (1 + 4 * w) + 4 * ((i - 1) % w)

\* the pixel loops: row y starts at y * row_bytes + 1, pixel x at + 4 * x (0-based)
PixelIndex(i, w) == ((i - 1) \div w) * (1 + 4 * w) + 1 + 4 * ((i - 1) % w)
\* raw[idx + 3] is out of range for some pixel: IndexError
PixelsFail(raw, w, h) ==
    \E i \in 1..(w * h) : PixelIndex(i, w) + 4 > Len(raw)
\* mutant of Pixels: one pixel for every four bytes of the data after its first byte
Pixels_FromData(raw, w, h) ==
    [i \in 1..((Len(raw) - 1) \div 4) |->
        << raw[4 * i - 2], raw[4 * i - 1], raw[4 * i], raw[4 * i + 1] >>]

Pixels(raw, w, h) ==
    [i \in 1..(w * h) |->
        << raw[PixelIndex(i, w) + 1], raw[PixelIndex(i, w) + 2],
           raw[PixelIndex(i, w) + 3], raw[PixelIndex(i, w) + 4] >>]

Chunk(type, data) == [type |-> type, data |-> data]
IHDR(w, h, depth, colour) == Chunk("IHDR", <<0, 0, 0, w, 0, 0, 0, h, depth, colour, 0, 0, 0>>)

\* mutant of ScanChunk: the format test joins its two comparisons with "and"
ScanChunk_BothWrong(w, h, z, c) ==
    LET same == [width |-> w, height |-> h, compressed |-> z, raised |-> FALSE, end |-> FALSE]
    IN  IF c.type = "IHDR"
        THEN IF Len(c.data) < 10 THEN [same EXCEPT !.raised = TRUE]
             ELSE [same EXCEPT !.width = U32(SubSeq(c.data, 1, 4)),
                               !.height = U32(SubSeq(c.data, 5, 8)),
                               !.raised = (c.data[9] # 8 /\ c.data[10] # 6)]
        ELSE IF c.type = "IDAT" THEN [same EXCEPT !.compressed = z \o c.data]
        ELSE IF c.type = "IEND" THEN [same EXCEPT !.end = TRUE]
        ELSE same

\* the body of the while loop on one chunk: the locals after it, whether it raised
\* (struct.error or IndexError on a short IHDR, ValueError on an unsupported format),
\* and whether it left the loop
ScanChunk(w, h, z, c) ==
    LET same == [width |-> w, height |-> h, compressed |-> z, raised |-> FALSE, end |-> FALSE]
    IN  IF c.type = "IHDR"
        THEN IF Len(c.data) < 10 THEN [same EXCEPT !.raised = TRUE]
             ELSE [same EXCEPT !.width = U32(SubSeq(c.data, 1, 4)),
                               !.height = U32(SubSeq(c.data, 5, 8)),
                               !.raised = (c.data[9] # 8 \/ c.data[10] # 6)]
        ELSE IF c.type = "IDAT" THEN [same EXCEPT !.compressed = z \o c.data]
        ELSE IF c.type = "IEND" THEN [same EXCEPT !.end = TRUE]
        ELSE same

\* the files of the model: raw rows of a 1x1 image (filter byte 0, pixel 1 2 3 4) and of a
\* 2x1 image, their zlib streams whole and split in two, and malformed chunks
Raw1 == <<0, 1, 2, 3, 4>>
Raw2 == <<0, 1, 2, 3, 4, 5, 6, 7, 8>>
PngChunks == {
    IHDR(1, 1, 8, 6), IHDR(2, 1, 8, 6), IHDR(1, 1, 16, 6), IHDR(1, 1, 8, 2),
    Chunk("IHDR", <<0, 0>>),
    Chunk("IDAT", Compress(Raw1)),
    Chunk("IDAT", SubSeq(Compress(Raw1), 1, 3)),
    Chunk("IDAT", SubSeq(Compress(Raw1), 4, Len(Compress(Raw1)))),
    Chunk("IDAT", Compress(Raw2)),
    Chunk("IDAT", <<7, 7>>),
    Chunk("tEXt", <<1>>),
    Chunk("IEND", <<>>) }
PngSignatures == { PngMagic, <<137, 80, 78, 71, 13, 10, 26, 13>>, <<137, 80>> }

\* sig = f.read(8) and the signature test
PngOpen ==
    /\ png_pc = "open"
    /\ png_pc' = IF png_sig # PngMagic THEN "raised" ELSE "scan"
    /\ UNCHANGED <<png_sig, png_chunks, width, height, compressed, raster>>
    /\ UNCHANGED <<md3vars, restvars>>

\* one iteration of the while loop on the next chunk of the file
PngReadChunk ==
    /\ png_pc = "scan"
    /\ Len(png_chunks) < MaxChunks
    /\ \E c \in PngChunks :
          LET st == ScanChunk(width, height, compressed, c)
          IN  /\ png_chunks' = Append(png_chunks, c)
              /\ png_pc' = IF st.raised THEN "raised" ELSE IF st.end THEN "decode" ELSE "scan"
              /\ width' = st.width
              /\ height' = st.height
              /\ compressed' = st.compressed
    /\ UNCHANGED <<png_sig, raster>>
    /\ UNCHANGED <<md3vars, restvars>>

\* the file ends where a chunk length is expected: struct.unpack raises
PngEndOfFile ==
    /\ png_pc = "scan"
    /\ png_pc' = "raised"
    /\ UNCHANGED <<png_sig, png_chunks, width, height, compressed, raster>>
    /\ UNCHANGED <<md3vars, restvars>>

\* after the loop: decompress, extract the pixels, return
PngDecode ==
    /\ png_pc = "decode"
    /\ IF DecompressFails(compressed) \/ PixelsFail(Decompress(compressed), width, height)
       THEN png_pc' = "raised" /\ UNCHANGED raster
       ELSE /\ png_pc' = "returned"
            /\ raster' = [width |-> width, height |-> height,
                          pixels |-> Pixels(Decompress(compressed), width, height),
                          none |-> FALSE]
    /\ UNCHANGED <<png_sig, png_chunks, width, height, compressed>>
    /\ UNCHANGED <<md3vars, restvars>>

PngInit ==
    /\ corpus = {}
    /\ text = <<>>
    /\ components = <<>>
    /\ grid_unit = DefaultGridUnit
    /\ current_component = NoComponent
    /\ current_block = NoBlock
    /\ pc = "start"
    /\ checks = <<>>
    /\ consts = <<>>
    /\ stdout = <<>>
    /\ md3_result = NoResult
    /\ png_pc = "open"
    /\ png_sig \in PngSignatures
    /\ png_chunks = <<>>
    /\ width = 0
    /\ height = 0
    /\ compressed = <<>>
    /\ raster = NoRaster
    /\ RestIdle

PngNext ==
    \/ PngOpen
    \/ PngReadChunk
    \/ PngEndOfFile
    \/ PngDecode

PngSpec == PngInit /\ [][PngNext]_vars

-----------------------------------------------------------------------------
(* Properties of read_png *)

IhdrsRead == {i \in 1..Len(png_chunks) : png_chunks[i].type = "IHDR"}
IdatsRead == {i \in 1..Len(png_chunks) : png_chunks[i].type = "IDAT"}

\* C9: read_png never returns a raster when the signature is not the PNG magic, or when an
\* IHDR chunk scanned before IEND reports a bit depth other than 8 or a colour type other
\* than 6.
C9_BadSignatureOrFormatFails ==
    png_pc = "returned" =>
        /\ png_sig = PngMagic
        /\ \A i \in IhdrsRead : png_chunks[i].data[9] = 8 /\ png_chunks[i].data[10] = 6

C9_Witness ==
    /\ png_pc = "raised"
    /\ png_sig = PngMagic
    /\ png_chunks = << IHDR(1, 1, 8, 6), IHDR(1, 1, 16, 6) >>

\* C10: read_png never returns a raster for a chunk sequence without an IHDR chunk, or
\* whose first IDAT chunk comes before the IHDR chunk.
C10_MissingHeaderFails ==
    png_pc = "returned" =>
        /\ IhdrsRead # {}
        /\ \A i \in IdatsRead : \E j \in IhdrsRead : j < i

\* the file's IDAT payloads, concatenated in file order, and the bytes they inflate to
RECURSIVE IdatStream(_)
IdatStream(chunks) ==
    IF chunks = <<>> THEN <<>>
    ELSE IF Head(chunks).type = "IDAT" THEN Head(chunks).data \o IdatStream(Tail(chunks))
    ELSE IdatStream(Tail(chunks))
Inflated == Decompress(IdatStream(png_chunks))

\* C11: every raster read_png returns has len(pixels) = width * height, whatever the
\* chunk sequence was; a file whose inflated data is shorter than height rows of
\* 1 + 4 * width bytes is not returned.
C11_PixelCountIsArea ==
    png_pc = "returned" =>
        /\ Len(raster.pixels) = raster.width * raster.height
        /\ raster.width * raster.height > 0 =>
               Len(Inflated) >= raster.height * (1 + 4 * raster.width)

\* a repeated IHDR and more data than the last IHDR asks for
C11_Witness ==
    /\ png_pc = "returned"
    /\ png_chunks = << IHDR(2, 1, 8, 6), IHDR(1, 1, 8, 6),
                       Chunk("IDAT", Compress(Raw2)), Chunk("IEND", <<>>) >>
    /\ Len(raster.pixels) = 1

-----------------------------------------------------------------------------
(* read_png on the file of a constant-colour raster *)

Colours == { <<1, 2, 3, 4>>, <<0, 0, 0, 255>> }
FilterBytes == {0, 2}

RECURSIVE Repeat(_, _)
Repeat(b, n) == IF n = 0 THEN <<>> ELSE b \o Repeat(b, n - 1)
\* the rows read_png indexes: one leading byte, then width pixels of four bytes
RECURSIVE Rows(_, _, _)
Rows(w, colour, filters) ==
    IF filters = <<>> THEN <<>>
    ELSE <<Head(filters)>> \o Repeat(colour, w) \o Rows(w, colour, Tail(filters))

NonEmpty(b) == b # <<>>
\* the chunks of the file: IHDR, the zlib stream cut after a and after b bytes into at most
\* three IDAT chunks in order, IEND
EncodedChunks(e, a, b) ==
    LET z == Compress(Rows(e.width, e.colour, e.filters))
        pieces == << SubSeq(z, 1, a), SubSeq(z, a + 1, b), SubSeq(z, b + 1, Len(z)) >>
        idats == SelectSeq(pieces, NonEmpty)
    IN  << IHDR(e.width, e.height, 8, 6) >>
        \o [i \in 1..Len(idats) |-> Chunk("IDAT", idats[i])]
        \o << Chunk("IEND", <<>>) >>

\* the while loop over the chunks of a file; a file that ends without IEND raises
RECURSIVE ScanFile(_, _, _, _)
ScanFile(w, h, z, chunks) ==
    IF chunks = <<>>
    THEN [width |-> w, height |-> h, compressed |-> z, raised |-> TRUE, end |-> FALSE]
    ELSE LET st == ScanChunk(w, h, z, Head(chunks))
         IN  IF st.raised \/ st.end THEN st
             ELSE ScanFile(st.width, st.height, st.compressed, Tail(chunks))

\* the file is written
PngWrite ==
    /\ png_pc = "write"
    /\ \E b \in 0..(Len(Rows(encoded.width, encoded.colour, encoded.filters)) + 3) :
       \E a \in 0..b :
          png_chunks' = EncodedChunks(encoded, a, b)
    /\ png_sig' = PngMagic
    /\ png_pc' = "file"
    /\ UNCHANGED <<width, height, compressed, raster, encoded, cmpvars, runvars, visvars>>
    /\ UNCHANGED md3vars

\* read_png(path) on the file, from the signature to the return
PngRead ==
    /\ png_pc = "file"
    /\ LET st == ScanFile(0, 0, <<>>, png_chunks)
           fails == \/ png_sig # PngMagic
                    \/ st.raised
                    \/ DecompressFails(st.compressed)
                    \/ PixelsFail(Decompress(st.compressed), st.width, st.height)
       IN  /\ width' = IF png_sig # PngMagic THEN 0 ELSE st.width
           /\ height' = IF png_sig # PngMagic THEN 0 ELSE st.height
           /\ compressed' = IF png_sig # PngMagic THEN <<>> ELSE st.compressed
           /\ png_pc' = IF fails THEN "raised" ELSE "returned"
           /\ raster' = IF fails THEN raster
                        ELSE [width |-> st.width, height |-> st.height,
                              pixels |-> Pixels(Decompress(st.compressed), st.width, st.height),
                              none |-> FALSE]
    /\ UNCHANGED <<png_sig, png_chunks, encoded, cmpvars, runvars, visvars>>
    /\ UNCHANGED md3vars

RoundTripInit ==
    /\ Md3Idle
    /\ png_pc = "write"
    /\ png_sig = <<>>
    /\ png_chunks = <<>>
    /\ width = 0
    /\ height = 0
    /\ compressed = <<>>
    /\ raster = NoRaster
    /\ \E w \in 0..MaxDim, h \in 0..MaxDim :
          encoded \in [width : {w}, height : {h}, colour : Colours,
                       filters : [1..h -> FilterBytes], none : {FALSE}]
    /\ CmpIdle
    /\ RunIdle
    /\ VisIdle

RoundTripNext ==
    \/ PngWrite
    \/ PngRead

RoundTripSpec == RoundTripInit /\ [][RoundTripNext]_vars

\* C12: the file of a constant-colour raster (signature, IHDR with 8 bits and RGBA, the
\* zlib stream in one or more IDAT chunks in order, IEND) is read back with the same
\* width and height and every pixel the colour, whatever the first byte of each row is.
C12_RoundTrip ==
    png_pc \in {"returned", "raised"} =>
        /\ png_pc = "returned"
        /\ raster.width = encoded.width
        /\ raster.height = encoded.height
        /\ Len(raster.pixels) = encoded.width * encoded.height
        /\ \A i \in 1..Len(raster.pixels) : raster.pixels[i] = encoded.colour

\* a 2x2 raster, rows led by different bytes, stream in three IDAT chunks
C12_Witness ==
    /\ png_pc = "returned"
    /\ encoded.width = 2 /\ encoded.height = 2
    /\ encoded.filters = <<2, 0>>
    /\ Cardinality(IdatsRead) = 3
    /\ Len(raster.pixels) = 4

-----------------------------------------------------------------------------
(* compare_images *)

\* mutant of Differs: the difference is not made absolute
Differs_NoAbs(c1, c2, t) == c1 - c2 > t

\* abs(c1 - c2) > tolerance
Differs(c1, c2, t) == Abs(c1 - c2) > t

\* mutant of PixelDiffers: all() in place of any()
PixelDiffers_All(p1, p2, t) ==
    \A c \in 1..(IF Len(p1) < Len(p2) THEN Len(p1) ELSE Len(p2)) : Differs(p1[c], p2[c], t)

\* any(abs(c1 - c2) > tolerance for c1, c2 in zip(p1, p2))
PixelDiffers(p1, p2, t) ==
    \E c \in 1..(IF Len(p1) < Len(p2) THEN Len(p1) ELSE Len(p2)) : Differs(p1[c], p2[c], t)

\* the loop over zip(px1, px2): the number of positions counted
DiffCount(px1, px2, t) ==
    Cardinality({i \in 1..(IF Len(px1) < Len(px2) THEN Len(px1) ELSE Len(px2)) :
                    PixelDiffers(px1[i], px2[i], t)})

RECURSIVE Gcd(_, _)
Gcd(a, b) == IF b = 0 THEN a ELSE Gcd(b, a % b)
\* the float n / d (d > 0) as a fraction in lowest terms; 0.0 is <<0, 1>>
Ratio(n, d) == << n \div Gcd(n, d), d \div Gcd(n, d) >>

\* mutant of CompareImages: the dimension test joins its comparisons with "and"
CompareImages_BothDiffer(a, b, t) ==
    IF a.width # b.width /\ a.height # b.height
    THEN [match |-> FALSE, similarity |-> <<0, 1>>, diff_count |-> a.width * a.height,
          none |-> FALSE]
    ELSE LET diff_count == DiffCount(a.pixels, b.pixels, t)
             total == a.width * a.height
         IN  [match |-> diff_count = 0,
              similarity |-> IF total > 0 THEN Ratio(100 * (total - diff_count), total)
                             ELSE <<0, 1>>,
              diff_count |-> diff_count, none |-> FALSE]

\* compare_images(img1, img2, tolerance): (match, similarity_percent, diff_pixel_count)
CompareImages(a, b, t) ==
    IF a.width # b.width \/ a.height # b.height
    THEN [match |-> FALSE, similarity |-> <<0, 1>>, diff_count |-> a.width * a.height,
          none |-> FALSE]
    ELSE LET diff_count == DiffCount(a.pixels, b.pixels, t)
             total == a.width * a.height
         IN  [match |-> diff_count = 0,
              similarity |-> IF total > 0 THEN Ratio(100 * (total - diff_count), total)
                             ELSE <<0, 1>>,
              diff_count |-> diff_count, none |-> FALSE]

\* the rasters of the model, as read_png returns them: width * height pixels of four
\* channels; the channel values differ by 1, 2 and 3
PixelSet == { <<0, 0, 0, 0>>, <<0, 0, 2, 0>>, <<0, 0, 3, 0>>, <<1, 1, 1, 1>> }
Rasters ==
    UNION { [width : {w}, height : {h}, pixels : [1..(w * h) -> PixelSet], none : {FALSE}] :
              <<w, h>> \in {d \in (0..MaxPixels) \X (0..MaxPixels) : d[1] * d[2] <= MaxPixels} }
\* --tolerance is any int
Tolerances == (-1)..MaxTol

Compare ==
    /\ cmp_result.none
    /\ cmp_result' = CompareImages(img1, img2, tolerance)
    /\ UNCHANGED <<img1, img2, tolerance, encoded, runvars, visvars>>
    /\ UNCHANGED <<md3vars, pngvars>>

CmpInit ==
    /\ Md3Idle
    /\ PngIdle
    /\ encoded = NoEncoded
    /\ img1 \in Rasters
    /\ img2 \in Rasters
    /\ tolerance \in Tolerances
    /\ cmp_result = NoCompare
    /\ RunIdle
    /\ VisIdle

CmpNext == Compare

CmpSpec == CmpInit /\ [][CmpNext]_vars

-----------------------------------------------------------------------------
(* Properties of compare_images *)

Compared == ~cmp_result.none
DimsDiffer == img1.width # img2.width \/ img1.height # img2.height

\* C13: the match flag of compare_images(a, b, t) is the match flag of
\* compare_images(b, a, t), for rasters of equal or different dimensions, empty or not.
C13_MatchSymmetric ==
    Compared => (cmp_result.match <=> CompareImages(img2, img1, tolerance).match)

\* equal dimensions, one channel apart by more than the tolerance in one direction only
C13_Witness ==
    /\ Compared
    /\ ~DimsDiffer
    /\ img1.pixels = << <<0, 0, 0, 0>> >>
    /\ img2.pixels = << <<0, 0, 3, 0>> >>
    /\ tolerance = 2
    /\ ~cmp_result.match

\* no channel of the two pixels is further apart than t
WithinTolerance(p, q, t) == \A c \in 1..4 : p[c] - q[c] <= t /\ q[c] - p[c] <= t
\* the positions whose pixels are further apart than t in some channel
FarPositions == {i \in 1..(img1.width * img1.height) :
                    ~WithinTolerance(img1.pixels[i], img2.pixels[i], tolerance)}

\* C14: for rasters of equal dimensions the differing pixel count is the number of
\* positions where at least one of the four channels differs by strictly more than the
\* tolerance (a difference of exactly t is not counted, t + 1 is).
C14_CountsPixelsBeyondTolerance ==
    (Compared /\ ~DimsDiffer) => cmp_result.diff_count = Cardinality(FarPositions)

\* two positions: one channel apart by exactly t (not counted), one by t + 1 (counted)
C14_Witness ==
    /\ Compared
    /\ tolerance = 2
    /\ img1.pixels = << <<0, 0, 0, 0>>, <<0, 0, 0, 0>> >>
    /\ img2.pixels = << <<0, 0, 2, 0>>, <<0, 0, 3, 0>> >>
    /\ img1.width = img2.width /\ img1.height = img2.height
    /\ cmp_result.diff_count = 1

\* C15: when width or height differ the result is match = False, similarity 0.0 and a
\* differing pixel count of the first raster's width * height, whatever the pixels and
\* the tolerance are.
C15_DimensionMismatch ==
    (Compared /\ DimsDiffer) =>
        /\ ~cmp_result.match
        /\ cmp_result.similarity = <<0, 1>>
        /\ cmp_result.diff_count = img1.width * img1.height

\* same width, different height, equal leading pixels
C15_Witness ==
    /\ Compared
    /\ img1.width = 1 /\ img1.height = 2
    /\ img2.width = 1 /\ img2.height = 1
    /\ img1.pixels[1] = img2.pixels[1]
    /\ cmp_result.diff_count = 2

\* C16: the match flag is true iff the differing pixel count is 0, for every result
\* compare_images returns.
C16_MatchIffNoDifference ==
    Compared => (cmp_result.match <=> cmp_result.diff_count = 0)

-----------------------------------------------------------------------------
(* run_test *)

\* TESTS, in insertion order: the name and min_box_calls of each TestCase
TESTS == <<
    [name |-> "button", min_box_calls |-> 1], [name |-> "checkbox", min_box_calls |-> 1],
    [name |-> "switch", min_box_calls |-> 1], [name |-> "radio", min_box_calls |-> 3],
    [name |-> "textfield", min_box_calls |-> 1], [name |-> "slider", min_box_calls |-> 1],
    [name |-> "tabs", min_box_calls |-> 1], [name |-> "focus", min_box_calls |-> 2],
    [name |-> "divider", min_box_calls |-> 2], [name |-> "card", min_box_calls |-> 1],
    [name |-> "layout", min_box_calls |-> 4], [name |-> "scroll", min_box_calls |-> 2] >>
Cases == 1..(IF MaxCases < Len(TESTS) THEN MaxCases ELSE Len(TESTS))

\* the text after the colon of a stdout line: an integer, or text int() rejects
Val(n) == [ok |-> TRUE, n |-> n]
Garbled == [ok |-> FALSE, n |-> 0]
Line(k, v) == [k |-> k, v |-> v]

\* the loop over out.stdout.split("\n"): a known key takes the integer of its line, a
\* line whose value is not an integer (ValueError) leaves the key as it was
RECURSIVE ParseInfo(_, _)
ParseInfo(info, lines) ==
    IF lines = <<>> THEN info
    ELSE LET l == Head(lines)
         IN  ParseInfo(IF l.k \in DOMAIN info /\ l.v.ok THEN [info EXCEPT ![l.k] = l.v.n]
                       ELSE info,
                       Tail(lines))

\* (False, {"error": ...}) and the kinds of error text
Fail(error, info) == [passed |-> FALSE, error |-> error, info |-> info]

\* mutant of CompileStep: CalledProcessError is swallowed
CompileStep_Swallowed(lib_exists, cc) ==
    IF ~lib_exists
    THEN [pc |-> "build_failed", result |-> Fail("Library not found", NoInfo), steps |-> <<>>]
    ELSE IF cc = "ok"
    THEN [pc |-> "built", result |-> NoCaseResult, steps |-> <<"compile_ok">>]
    ELSE IF cc = "nonzero"
    THEN [pc |-> "built", result |-> NoCaseResult, steps |-> <<"compile_failed">>]
    ELSE [pc |-> "raised", result |-> NoCaseResult, steps |-> <<"compile_nospawn">>]

\* the library test and the compiler run: cc is "ok", "nonzero" (CalledProcessError) or
\* "nospawn" (subprocess.run raises FileNotFoundError, which nothing catches)
CompileStep(lib_exists, cc) ==
    IF ~lib_exists
    THEN [pc |-> "build_failed", result |-> Fail("Library not found", NoInfo), steps |-> <<>>]
    ELSE IF cc = "ok"
    THEN [pc |-> "built", result |-> NoCaseResult, steps |-> <<"compile_ok">>]
    ELSE IF cc = "nonzero"
    THEN [pc |-> "build_failed", result |-> Fail("compile", NoInfo),
          steps |-> <<"compile_failed">>]
    ELSE [pc |-> "raised", result |-> NoCaseResult, steps |-> <<"compile_nospawn">>]

\* the run of the executable under timeout=10: ex.kind is "completed", "timeout"
\* (TimeoutExpired) or "nospawn" (OSError, which nothing catches)
ExecStep(ex) ==
    IF ex.kind = "completed"
    THEN [pc |-> "ran", result |-> NoCaseResult, steps |-> <<"launched", "completed">>]
    ELSE IF ex.kind = "timeout"
    THEN [pc |-> "timed_out", result |-> Fail("timeout", NoInfo),
          steps |-> <<"launched", "timeout">>]
    ELSE [pc |-> "raised", result |-> NoCaseResult, steps |-> <<"launch_nospawn">>]

\* from info = {...} to the return: parse stdout, then the three tests
Verdict(out, min_box_calls) ==
    LET info == ParseInfo(NoInfo, out.stdout)
    IN  IF out.returncode # 0 THEN Fail("validation failed", info)
        ELSE IF info.box < min_box_calls THEN Fail("box calls", info)
        ELSE [passed |-> info.passed = 1, error |-> "", info |-> info]

\* what the compiler run and the conformance program can do.  The program of
\* TEST_TEMPLATE prints frames, box and passed and exits with 0 iff test_passed, prints
\* nothing and exits with 1 when the port or context fails to initialise, and may be
\* ended with a non-zero code after printing; a stdout value may reach the harness garbled
CompilerOutcomes == {"ok", "nonzero", "nospawn"}
Stdouts ==
    { <<>> } \cup
    { << Line("frames", Val(10)), Line("box", b), Line("passed", q) >> :
        b \in {Val(0), Val(1), Val(3), Garbled}, q \in {Val(0), Val(1), Garbled} }
ExecOutcomes ==
    { o \in [kind : {"completed"}, returncode : {0, 1}, stdout : Stdouts] :
        o.returncode = 0 => (o.stdout # <<>> /\ o.stdout[3].v # Val(0)) }
    \cup { [kind |-> "timeout", returncode |-> 0, stdout |-> <<>>],
           [kind |-> "nospawn", returncode |-> 0, stdout |-> <<>>] }

\* BUILD_DIR, the source text, the library test and the compiler run
RtCompile ==
    /\ main_pc = "cases"
    /\ rt_pc = "pending"
    /\ \E lib_exists \in BOOLEAN, cc \in CompilerOutcomes :
          LET st == CompileStep(lib_exists, cc)
          IN  /\ rt_pc' = st.pc
              /\ rt_result' = st.result
              /\ rt_steps' = rt_steps \o st.steps
              /\ main_pc' = IF st.pc = "raised" THEN "crashed" ELSE main_pc
    /\ UNCHANGED <<mode, arg_test, rt_case, rt_out, results, exit_code>>
    /\ UNCHANGED <<md3vars, pngvars, encoded, cmpvars, visvars>>

\* the run of the executable
RtExecute ==
    /\ main_pc = "cases"
    /\ rt_pc = "built"
    /\ \E ex \in ExecOutcomes :
          LET st == ExecStep(ex)
          IN  /\ rt_pc' = st.pc
              /\ rt_result' = st.result
              /\ rt_steps' = rt_steps \o st.steps
              /\ rt_out' = IF ex.kind = "completed" THEN ex ELSE rt_out
              /\ main_pc' = IF st.pc = "raised" THEN "crashed" ELSE main_pc
    /\ UNCHANGED <<mode, arg_test, rt_case, results, exit_code>>
    /\ UNCHANGED <<md3vars, pngvars, encoded, cmpvars, visvars>>

\* stdout is parsed and the verdict returned
RtVerdict ==
    /\ main_pc = "cases"
    /\ rt_pc = "ran"
    /\ LET r == Verdict(rt_out, TESTS[rt_case].min_box_calls)
       IN  /\ rt_result' = r
           /\ rt_pc' = IF r.passed THEN "passed" ELSE "failed"
    /\ rt_steps' = rt_steps \o <<"parsed", "verdict">>
    /\ UNCHANGED <<mode, arg_test, main_pc, rt_case, rt_out, results, exit_code>>
    /\ UNCHANGED <<md3vars, pngvars, encoded, cmpvars, visvars>>

-----------------------------------------------------------------------------
(* run_visual_test, main *)

Modes == {"all", "one", "golden", "visual", "md3", "shm"}

\* an entry of results: the passed flag and the error text of a check
Check(passed, error) == [passed |-> passed, error |-> error]
AllPassed(rs) == \A i \in 1..Len(rs) : rs[i].passed

\* what run_visual_test finds after a passing run_test
VisualOutcomes == {"no_screenshot", "no_golden", "match", "differ", "compare_failed"}

\* the result of one case in main's loop: run_test's in the run-one and run-all modes,
\* run_visual_test's (generate = True or False) in the two visual modes
CaseCheck(m, r, v) ==
    IF m \in {"all", "one"} THEN Check(r.passed, r.error)
    ELSE IF ~r.passed THEN Check(FALSE, "Test failed")
    ELSE IF v = "no_screenshot" THEN Check(FALSE, "Screenshot not generated")
    ELSE IF m = "golden" THEN Check(TRUE, "")
    ELSE IF v = "no_golden" THEN Check(FALSE, "No golden image")
    ELSE IF v = "compare_failed" THEN Check(FALSE, "Compare failed")
    ELSE Check(v = "match", "")

\* the return value of main after the checks of a mode ran
ExitCode(m, rs) ==
    IF m = "golden" THEN 0
    ELSE IF AllPassed(rs) THEN 0 ELSE 1

LastCase == IF MaxCases < Len(TESTS) THEN MaxCases ELSE Len(TESTS)

\* "Determine library path": --lib names a missing file or build_library fails, or the
\* library is there; then the branch of the mode is entered
MainLibrary ==
    /\ main_pc = "library"
    /\ \E lib_ok \in BOOLEAN :
          IF ~lib_ok \/ (mode = "one" /\ arg_test = 0)
          THEN /\ main_pc' = "exit"
               /\ exit_code' = 1
               /\ UNCHANGED <<rt_case, rt_pc>>
          ELSE /\ main_pc' = IF mode \in {"md3", "shm"} THEN mode ELSE "cases"
               /\ rt_case' = IF mode \in {"md3", "shm"} THEN 0
                             ELSE IF mode = "one" THEN arg_test ELSE 1
               /\ rt_pc' = IF mode \in {"md3", "shm"} THEN rt_pc ELSE "pending"
               /\ UNCHANGED exit_code
    /\ UNCHANGED <<mode, arg_test, rt_steps, rt_out, rt_result, results>>
    /\ UNCHANGED <<md3vars, pngvars, encoded, cmpvars, visvars>>

\* run_test (or run_visual_test) returned: the result is printed and kept, and the loop
\* goes to the next case or the mode goes on
MainCaseDone ==
    /\ main_pc = "cases"
    /\ rt_pc \in {"build_failed", "timed_out", "passed", "failed"}
    /\ \E v \in VisualOutcomes :
          LET rs == Append(results, CaseCheck(mode, rt_result, v))
          IN  /\ results' = rs
              /\ IF mode # "one" /\ rt_case < LastCase
                 THEN /\ rt_case' = rt_case + 1
                      /\ rt_pc' = "pending"
                      /\ rt_steps' = <<>>
                      /\ rt_out' = NoOut
                      /\ rt_result' = NoCaseResult
                      /\ UNCHANGED <<main_pc, exit_code>>
                 ELSE IF mode = "all"
                 THEN /\ main_pc' = "md3"
                      /\ UNCHANGED <<rt_case, rt_pc, rt_steps, rt_out, rt_result, exit_code>>
                 ELSE /\ main_pc' = "exit"
                      /\ exit_code' = ExitCode(mode, rs)
                      /\ UNCHANGED <<rt_case, rt_pc, rt_steps, rt_out, rt_result>>
    /\ UNCHANGED <<mode, arg_test>>
    /\ UNCHANGED <<md3vars, pngvars, encoded, cmpvars, visvars>>

\* what a check function can do: return passed, return failed, or raise (the compiler
\* cannot be spawned, int() of a malformed stdout value)
CheckOutcomes == {"passed", "failed", "raised"}

\* run_md3_tests: the only check of the md3 mode, the next to last one of a run of all
MainMd3 ==
    /\ main_pc = "md3"
    /\ \E o \in CheckOutcomes :
          LET rs == Append(results, Check(o = "passed", IF o = "passed" THEN "" ELSE "violations"))
          IN  IF o = "raised"
              THEN main_pc' = "crashed" /\ UNCHANGED <<results, exit_code>>
              ELSE /\ results' = rs
                   /\ main_pc' = IF mode = "all" THEN "runtime" ELSE "exit"
                   /\ exit_code' = IF mode = "all" THEN exit_code ELSE ExitCode(mode, rs)
    /\ UNCHANGED <<mode, arg_test, rt_case, rt_pc, rt_steps, rt_out, rt_result>>
    /\ UNCHANGED <<md3vars, pngvars, encoded, cmpvars, visvars>>

\* run_md3_runtime_tests, then the summary and the exit code of a run of all
MainRuntime ==
    /\ main_pc = "runtime"
    /\ \E o \in CheckOutcomes :
          LET rs == Append(results, Check(o = "passed", IF o = "passed" THEN "" ELSE "error"))
          IN  IF o = "raised"
              THEN main_pc' = "crashed" /\ UNCHANGED <<results, exit_code>>
              ELSE /\ results' = rs
                   /\ main_pc' = "exit"
                   /\ exit_code' = ExitCode(mode, rs)
    /\ UNCHANGED <<mode, arg_test, rt_case, rt_pc, rt_steps, rt_out, rt_result>>
    /\ UNCHANGED <<md3vars, pngvars, encoded, cmpvars, visvars>>

\* the shm mode: no check on Windows, else run_shm_test
MainShm ==
    /\ main_pc = "shm"
    /\ \E system \in {"Linux", "Windows"}, o \in CheckOutcomes :
          LET rs == Append(results, Check(o = "passed", IF o = "passed" THEN "" ELSE "error"))
          IN  IF system = "Windows"
              THEN main_pc' = "exit" /\ exit_code' = 1 /\ UNCHANGED results
              ELSE IF o = "raised"
              THEN main_pc' = "crashed" /\ UNCHANGED <<results, exit_code>>
              ELSE /\ results' = rs
                   /\ main_pc' = "exit"
                   /\ exit_code' = ExitCode(mode, rs)
    /\ UNCHANGED <<mode, arg_test, rt_case, rt_pc, rt_steps, rt_out, rt_result>>
    /\ UNCHANGED <<md3vars, pngvars, encoded, cmpvars, visvars>>

MainInit ==
    /\ Md3Idle
    /\ PngIdle
    /\ encoded = NoEncoded
    /\ CmpIdle
    /\ mode \in Modes
    /\ arg_test \in 0..LastCase
    /\ mode # "one" => arg_test = 0
    /\ main_pc = "library"
    /\ rt_case = 0
    /\ rt_pc = "idle"
    /\ rt_steps = <<>>
    /\ rt_out = NoOut
    /\ rt_result = NoCaseResult
    /\ results = <<>>
    /\ exit_code = None
    /\ VisIdle

MainNext ==
    \/ MainLibrary
    \/ RtCompile
    \/ RtExecute
    \/ RtVerdict
    \/ MainCaseDone
    \/ MainMd3
    \/ MainRuntime
    \/ MainShm

MainSpec == MainInit /\ [][MainNext]_vars

-----------------------------------------------------------------------------
(* Properties of run_test and main *)

Did(step) == \E i \in 1..Len(rt_steps) : rt_steps[i] = step
\* step s was done, and the step right before it was t
Follows(s, t) ==
    \A i \in 1..Len(rt_steps) : rt_steps[i] = s => (i > 1 /\ rt_steps[i - 1] = t)
\* step s, once done, is the last step of the case
IsLast(s) == \A i \in 1..Len(rt_steps) : rt_steps[i] = s => i = Len(rt_steps)
Returned == rt_pc \in {"build_failed", "timed_out", "passed", "failed"}

\* C17: within one case the executable is launched only right after a successful
\* compile, stdout is parsed and the verdict computed only after the process completed
\* within the timeout, a failed compile or a timeout is the last step of the case and
\* ends it as failed, and no step is done twice (nothing is retried).
C17_CaseStateMachine ==
    /\ Follows("launched", "compile_ok")
    /\ Follows("parsed", "completed")
    /\ Follows("verdict", "parsed")
    /\ Follows("completed", "launched")
    /\ Follows("timeout", "launched")
    /\ IsLast("compile_failed") /\ IsLast("timeout")
    /\ Did("compile_failed") => (rt_pc = "build_failed" /\ ~rt_result.passed)
    /\ Did("timeout") => (rt_pc = "timed_out" /\ ~rt_result.passed)
    /\ rt_pc \in {"passed", "failed"} => Did("verdict")
    /\ \A i, j \in 1..Len(rt_steps) : i # j => rt_steps[i] # rt_steps[j]

\* the second case of a run timed out after the first one was over
C17_Witness ==
    /\ rt_case = 2
    /\ rt_pc = "timed_out"
    /\ rt_steps = <<"compile_ok", "launched", "timeout">>
    /\ Len(results) = 1

\* the integer the program printed for a key (the last such line), 0 when there is none
RECURSIVE Printed(_, _)
Printed(k, lines) ==
    IF lines = <<>> THEN 0
    ELSE LET l == lines[Len(lines)]
         IN  IF l.k = k /\ l.v.ok THEN l.v.n ELSE Printed(k, SubSeq(lines, 1, Len(lines) - 1))

\* C18: a case that is over passed iff the compile succeeded, the process completed in
\* time with exit code 0, box is at least min_box_calls and passed is 1; otherwise it
\* is classified as a compile failure, a timeout, a runtime-reported failure (non-zero
\* exit code or pass flag not 1) or a minimum-draw-call violation.
C18_PassedIffAndClassified ==
    (Returned \/ rt_pc = "raised") =>
        /\ rt_result.passed <=>
              /\ Did("compile_ok") /\ Did("completed")
              /\ rt_out.returncode = 0
              /\ Printed("box", rt_out.stdout) >= TESTS[rt_case].min_box_calls
              /\ Printed("passed", rt_out.stdout) = 1
        /\ ~rt_result.passed =>
              \/ rt_result.error \in {"compile", "timeout", "validation failed", "box calls"}
              \/ rt_result.error = "" /\ Did("verdict")

\* the checks a mode selects
Selected ==
    IF mode = "all" THEN LastCase + 2
    ELSE IF mode \in {"golden", "visual"} THEN LastCase
    ELSE 1

\* C19: no failure within a case aborts the run: main never ends on an exception, and
\* a run of all cases that got past the library step ends with every case, the md3
\* check and the runtime check counted.
C19_NoFailureAbortsRun ==
    /\ main_pc # "crashed"
    /\ (main_pc = "exit" /\ mode = "all" /\ results # <<>>) => Len(results) = Selected

\* C20: in every mode main returns 0 iff every check the mode selects ran and passed.
C20_ExitCodeIffAllPassed ==
    main_pc = "exit" =>
        /\ exit_code \in {0, 1}
        /\ exit_code = 0 <=> (Len(results) = Selected /\ AllPassed(results))

-----------------------------------------------------------------------------
(* Properties of parse_dsl: skip mode and closing braces *)

\* C21: a line read in skip mode, up to the first bare closing brace, is discarded: it
\* creates or replaces no component and changes neither the current component nor
\* grid_unit.
C21_SkipModeDiscardsLines ==
    [][(ReadsLine /\ current_block = "skip" /\ ~IsBrace(NewLine)) =>
            /\ components' = components
            /\ current_component' = current_component
            /\ grid_unit' = grid_unit]_vars

\* a skip block opened and closed inside component x, then a property of x
SkipInsideComponent == << LComponent("x"), LSkipShape, LBrace, LCornerRadius(<<1, 2>>) >>
\* component x closed, then a property line
ClosedThenProperty == << LComponent("x"), LBrace, LCornerRadius(<<1, 2>>) >>

\* C22: a bare closing brace read in skip mode only leaves skip mode: the current
\* component stays open and a later property line applies to it; a bare closing brace
\* read outside skip mode closes the component, and until the next COMPONENT line no
\* line changes any component.
C22_BraceClosesInnermost ==
    /\ [](text = SkipInsideComponent => Get(components, "x").corner_radius = 1200)
    /\ [](text = ClosedThenProperty => components = << Component("x") >>)
    /\ [][(ReadsLine /\ IsBrace(NewLine) /\ current_block = "skip") =>
            /\ current_block' = NoBlock
            /\ current_component' = current_component
            /\ components' = components]_vars
    /\ [][(ReadsLine /\ IsBrace(NewLine) /\ current_block = NoBlock) =>
            /\ current_component' = NoComponent
            /\ components' = components]_vars
    /\ [][(ReadsLine /\ current_component = NoComponent /\ ~MatchComponent(NewLine)) =>
            /\ current_component' = NoComponent
            /\ components' = components]_vars

C22_Witness ==
    /\ text = SkipInsideComponent /\ pc = "parsed"
    /\ current_component = "x"
    /\ Get(components, "x").corner_radius = 1200

-----------------------------------------------------------------------------
(* run_visual_test on one case, run after run *)

\* run_test(name, screenshot=True) from its first line to its return or exception
RunTest(lib_exists, cc, ex, min_box_calls) ==
    LET c == CompileStep(lib_exists, cc)
        e == ExecStep(ex)
    IN  IF c.pc # "built" THEN [raised |-> c.pc = "raised", result |-> c.result]
        ELSE IF e.pc # "ran" THEN [raised |-> e.pc = "raised", result |-> e.result]
        ELSE [raised |-> FALSE, result |-> Verdict(ex, min_box_calls)]

\* the program got to the statement that saves the screenshot: it was built and started
\* and printed its lines
ReachedSave(lib_exists, cc, ex) ==
    CompileStep(lib_exists, cc).pc = "built" /\ ex.kind = "completed" /\ ex.stdout # <<>>

\* GOLDEN_DIR/<name>.png after run_visual_test: shutil.copy(screenshot_path, golden_path)
\* in generate mode when run_test passed and the screenshot file exists
GoldenAfter(gen, test, shot, gold) ==
    IF gen /\ test.passed /\ shot # 0 THEN shot ELSE gold

\* a harness run begins: run_visual_test(name, generate)
VisStart ==
    /\ vis_pc \in {"start", "returned", "raised"}
    /\ run_no < MaxRuns
    /\ run_no' = run_no + 1
    /\ generate' \in BOOLEAN
    /\ vis_pc' = "run_test"
    /\ vis_test' = NoCaseResult
    /\ vis_result' = NoCaseResult
    /\ current' = 0
    /\ UNCHANGED <<screenshot, golden>>
    /\ UNCHANGED <<md3vars, pngvars, encoded, cmpvars, runvars>>

\* passed, info = run_test(name, screenshot=True): the program writes the screenshot
\* when iui_headless_save_screenshot succeeds, whatever its verdict
VisRunTest ==
    /\ vis_pc = "run_test"
    /\ \E lib_exists \in BOOLEAN, cc \in CompilerOutcomes, ex \in ExecOutcomes, saved \in BOOLEAN :
          LET r == RunTest(lib_exists, cc, ex, TESTS[1].min_box_calls)
          IN  /\ vis_test' = r.result
              /\ vis_pc' = IF r.raised THEN "raised" ELSE "tested"
              /\ screenshot' = IF ReachedSave(lib_exists, cc, ex) /\ saved THEN run_no
                               ELSE screenshot
    /\ UNCHANGED <<run_no, generate, golden, current, vis_result>>
    /\ UNCHANGED <<md3vars, pngvars, encoded, cmpvars, runvars>>

\* the rest of run_visual_test: the tests on passed and on the files, then the copy to
\* the golden directory or the comparison with the golden image
VisFinish ==
    /\ vis_pc = "tested"
    /\ golden' = GoldenAfter(generate, vis_test, screenshot, golden)
    /\ \E v \in {"match", "differ", "compare_failed"} :
          IF ~vis_test.passed
          THEN vis_result' = Fail("Test failed", NoInfo) /\ UNCHANGED current
          ELSE IF screenshot = 0
          THEN vis_result' = Fail("Screenshot not generated", NoInfo) /\ UNCHANGED current
          ELSE IF generate
          THEN vis_result' = [passed |-> TRUE, error |-> "", info |-> NoInfo]
               /\ UNCHANGED current
          ELSE IF golden = 0
          THEN vis_result' = Fail("No golden image", NoInfo) /\ UNCHANGED current
          ELSE /\ current' = screenshot
               /\ vis_result' = IF v = "compare_failed" THEN Fail("Compare failed", NoInfo)
                                ELSE [passed |-> v = "match", error |-> "", info |-> NoInfo]
    /\ vis_pc' = "returned"
    /\ UNCHANGED <<run_no, generate, screenshot, vis_test>>
    /\ UNCHANGED <<md3vars, pngvars, encoded, cmpvars, runvars>>

VisInit ==
    /\ Md3Idle
    /\ PngIdle
    /\ encoded = NoEncoded
    /\ CmpIdle
    /\ RunIdle
    /\ vis_pc = "start"
    /\ run_no = 0
    /\ generate = FALSE
    /\ screenshot = 0
    /\ golden = 0
    /\ vis_test = NoCaseResult
    /\ current = 0
    /\ vis_result = NoCaseResult

VisNext ==
    \/ VisStart
    \/ VisRunTest
    \/ VisFinish

VisSpec == VisInit /\ [][VisNext]_vars

\* C23: the golden image changes only in generate mode, only when this run's run_test
\* passed, and to the screenshot this run produced; the image compared with the golden
\* one is this run's screenshot.
C23_GoldenFromCurrentRun ==
    /\ [][golden' # golden => (generate /\ vis_test.passed /\ golden' = run_no)]_vars
    /\ [][current' # 0 => current' = run_no]_vars

-----------------------------------------------------------------------------
(* Properties of run_md3_tests *)

\* the exit status of the program: 1 when the port or the context cannot be created,
\* otherwise violations > 0 ? 1 : 0
ProgramExit(cs, cv, how) ==
    IF how = "complete" THEN (IF Violations(cs, cv) > 0 THEN 1 ELSE 0) ELSE 1

\* stdout ends with the line violations:0 and holds no FAIL line
ReportsZeroViolations(out) ==
    /\ out # <<>>
    /\ out[Len(out)] = [tag |-> "violations", val |-> 0]
    /\ \A i \in 1..Len(out) : out[i].tag # "FAIL"

\* C24: run_md3_tests reports passed only when the program ran to completion and reported
\* zero violations: a run whose exit status is not 0, whose output holds a FAIL line, or
\* whose output ends without the violations: line is never reported as passed.
C24_PassedOnlyAfterCleanRun ==
    (pc = "done" /\ md3_result.passed) =>
        /\ ReportsZeroViolations(stdout)
        /\ \A how \in {"complete", "init_failed"} :
              stdout = ProgramOutput(checks, consts, how) => ProgramExit(checks, consts, how) = 0

-----------------------------------------------------------------------------
(* Properties of compare_images: the similarity *)

\* C25: for every result of compare_images the similarity lies in [0, 100], and the match
\* flag is true iff the similarity is 100, for rasters with zero pixels too.
C25_MatchIffFullSimilarity ==
    Compared =>
        LET sim == cmp_result.similarity
        IN  /\ sim[2] > 0
            /\ 0 <= sim[1] /\ sim[1] <= 100 * sim[2]
            /\ cmp_result.match <=> sim[1] = 100 * sim[2]

-----------------------------------------------------------------------------
(* Properties of SPEC_CONST_MAP: the entries and the parser *)

\* parse_dsl on a whole document: the loop body line after line, from Spec()
RECURSIVE ParseFrom(_, _)
ParseFrom(st, lines) ==
    IF lines = <<>> \/ st.raised THEN st
    ELSE ParseFrom(ParseStep(st.components, st.grid_unit, st.current_component,
                             st.current_block, Head(lines)),
                   Tail(lines))
ParseDsl(lines) ==
    ParseFrom([components |-> <<>>, grid_unit |-> DefaultGridUnit,
               current_component |-> NoComponent, current_block |-> NoBlock,
               raised |-> FALSE], lines)

\* the decimal digits of a natural number
RECURSIVE DigitsOf(_)
DigitsOf(n) == IF n < 10 THEN <<n>> ELSE DigitsOf(n \div 10) \o <<n % 10>>

\* a line that the pattern p matches, with the number n as its value
PropLine(p, n) ==
    [i \in 1..Len(p.head) |-> W(p.head[i])]
        \o << IF p.val = "ref" THEN Ref("medium") ELSE Num(0, DigitsOf(n), <<>>) >>

\* the documents that declare component name and one property with the expected value of
\* the entry e, one document per pattern of COMPONENT_PROPS: the setattr of the property
\* branch is the only place where parse_dsl gives a component's field a value
EntryDocuments(name, e) ==
    { << LComponent(name), PropLine(COMPONENT_PROPS[i], e.expected), LBrace >> :
        i \in 1..Len(COMPONENT_PROPS) }

\* generate_md3_checks(parse_dsl(doc)) holds the check of the entry
EmitsEntry(doc, name, e) ==
    LET st == ParseDsl(doc)
        cs == GenerateMd3Checks(st.components)
    IN  ~st.raised /\ \E k \in 1..Len(cs) : cs[k] = CheckLine(name, e)

\* some document of the entry makes parse_dsl and generate_md3_checks emit its check
Reachable(name, e) == \E doc \in EntryDocuments(name, e) : EmitsEntry(doc, name, e)

\* C26: every (component, property) entry of SPEC_CONST_MAP is reachable: for each entry
\* of a component of the document at hand, some DSL document makes parse_dsl followed by
\* generate_md3_checks emit its check.
C26_EveryEntryReachable ==
    \A i \in 1..Len(components) : \A e \in TableEntries(components[i].name) :
        Reachable(components[i].name, e)

=============================================================================
